---- MODULE Spec2Model ----
(***************************************************************************)
(* The request-handling pipeline of go-japi: the generic handler adapter   *)
(* (handler.handle) of package japi (src/api.go) and of its older lineage, *)
(* package minimal (src/unnamed/part_000), with Problem.ServeJSON and      *)
(* ProblemConfig.Enrich (src/problem/util.go).                             *)
(*                                                                         *)
(* One adapter is built with H and registered; requests are served one     *)
(* after the other.  A request is served in the steps of handle: route     *)
(* log, the four decode phases, the call of the user function, and the     *)
(* response.  The http.ResponseWriter is modelled by what net/http does:   *)
(* the first WriteHeader commits the status line and the headers set so    *)
(* far, a later WriteHeader is ignored, and a Write commits 200 first.     *)
(***************************************************************************)
EXTENDS Integers, Sequences, FiniteSets, TLC

\* ------------------------------------------------------------------ bounds

\* Requests served one after the other by the adapter.
MaxRequests == 2

MaxRegistrations == 2

MaxEnrich == 2

\* ----------------------------------------------------------- program values

JsonEncoding == "application/json"

JsonContentType == "application/json; charset=utf-8"

ProblemContentType == "application/problem+json"

StatusOK == 200

StatusBadRequest == 400

StatusNotAcceptable == 406

StatusInternalServerError == 500

StatusNotFound == 404

StatusMethodNotAllowed == 405

StatusTeapot == 418

StatusProxyAuthRequired == 407

Lineages == {"japi", "minimal"}

\* A Problem's type is a string, kept as the sequence of its pieces so that
\* formatting and the prefix test are computed, not assumed.
BlankType == <<"about:blank">>

DefaultTypeUrlFormat == <<"https://example.com/errors/", "%s">>

UrnTypeFormat == <<"urn:problem:", "%s">>

NoFormat == <<>>

TypeFormats == {NoFormat, DefaultTypeUrlFormat, UrnTypeFormat}

HttpPieces == {"https://example.com/errors/", "https://example.com/conflict"}

\* strings.HasPrefix(p.Type, "http")
HasPrefixHttp(t) == Len(t) > 0 /\ t[1] \in HttpPieces

RECURSIVE Sprintf(_, _)
\* fmt.Sprintf(format, arg) for a format with %s placeholders.
Sprintf(format, arg) ==
    IF format = <<>> THEN <<>>
    ELSE IF Head(format) = "%s" THEN arg \o Sprintf(Tail(format), arg)
    ELSE <<Head(format)>> \o Sprintf(Tail(format), arg)

\* Config: the hooks are either set or nil.
Configs ==
    [RouteLogFunc : BOOLEAN, ProblemLogFunc : BOOLEAN,
     ProblemTypeUrlFormat : TypeFormats, ProblemInstanceFunc : BOOLEAN]

\* package minimal's Config has no log hooks.
ConfigsOf(l) ==
    IF l = "japi" THEN Configs
    ELSE {c \in Configs : ~c.RouteLogFunc /\ ~c.ProblemLogFunc}

\* The decoders H resolved for the request type: set or nil.
Handlers == [decodeHeader : BOOLEAN, decodeQuery : BOOLEAN, decodePath : BOOLEAN]

\* ---------------------------------------------------------------- problems

NoInstance == <<>>

Problem(type, status) == [type |-> type, status |-> status, instance |-> NoInstance]

\* problem.BadRequest(e)
BadRequest == Problem(<<"bad-request">>, StatusBadRequest)

\* problem.Unexpected(e)
Unexpected == Problem(<<"unexpected">>, StatusInternalServerError)

\* ProblemStatus(status) of package minimal
ProblemStatus(status) == Problem(BlankType, status)

\* problem.Validation(...), as the example's Greet returns it
Validation == Problem(<<"validation">>, StatusBadRequest)

\* problem.NotCurrent(), here with a type that is already an absolute URI
NotCurrent == Problem(<<"https://example.com/conflict">>, StatusProxyAuthRequired)

UserProblems == {Validation, NotCurrent}

\* problem.NotFound()
NotFound == Problem(<<"not-found">>, StatusNotFound)

\* The *Problem values a handler holds across requests: the one a user
\* function keeps and returns again, and the ones New hands to E for the
\* NotFound and MethodNotAllowed fallbacks.
FallbackPtrs == {"notfound", "notallowed"}

Ptrs == {"user"} \cup FallbackPtrs

\* cfg.ProblemInstanceFunc(ctx): a URI of the request ctx.
InstanceOf(ctx) == <<"https://example.com/trace/", ctx>>

\* Enrich without the about:blank test.
EnrichBlankToo(cfg, ctx, p) ==
    LET p1 == IF cfg.ProblemTypeUrlFormat # NoFormat /\ ~HasPrefixHttp(p.type)
              THEN [p EXCEPT !.type = Sprintf(cfg.ProblemTypeUrlFormat, p.type)]
              ELSE p
    IN IF cfg.ProblemInstanceFunc THEN [p1 EXCEPT !.instance = InstanceOf(ctx)] ELSE p1

\* Enrich without the test for the "http" prefix.
EnrichNoPrefixTest(cfg, ctx, p) ==
    LET p1 == IF cfg.ProblemTypeUrlFormat # NoFormat /\ p.type # BlankType
              THEN [p EXCEPT !.type = Sprintf(cfg.ProblemTypeUrlFormat, p.type)]
              ELSE p
    IN IF cfg.ProblemInstanceFunc THEN [p1 EXCEPT !.instance = InstanceOf(ctx)] ELSE p1

\* ProblemConfig.Enrich: the Problem after enrichment; ctx is the request.
Enrich(cfg, ctx, p) ==
    LET p1 == IF cfg.ProblemTypeUrlFormat # NoFormat /\ p.type # BlankType
                 /\ ~HasPrefixHttp(p.type)
              THEN [p EXCEPT !.type = Sprintf(cfg.ProblemTypeUrlFormat, p.type)]
              ELSE p
    IN IF cfg.ProblemInstanceFunc THEN [p1 EXCEPT !.instance = InstanceOf(ctx)] ELSE p1

\* ---------------------------------------------------------- response writer

HeaderKeys == {"Content-Type", "foo"}

NoHeaders == [k \in HeaderKeys |-> ""]

NewWriter ==
    [header |-> NoHeaders, wroteHeader |-> FALSE, status |-> 0,
     sent |-> NoHeaders, body |-> <<>>]

\* w.Header().Set(k, v)
SetHeader(wr, k, v) == [wr EXCEPT !.header[k] = v]

\* w.WriteHeader(code): the first call commits the status line and the headers.
WriteHeader(wr, code) ==
    IF wr.wroteHeader THEN wr
    ELSE [wr EXCEPT !.wroteHeader = TRUE, !.status = code, !.sent = wr.header]

\* w.Write(chunk): commits 200 when no status was written.
Write(wr, chunk) ==
    [WriteHeader(wr, StatusOK) EXCEPT !.body = Append(@, chunk)]

\* The JSON document json.NewEncoder(w).Encode(v) writes for v.
JsonOfProblem(p) == [kind |-> "problem", type |-> p.type, status |-> p.status,
                     instance |-> p.instance]

JsonOfPayload(res) == [kind |-> "payload", of |-> res.id]

\* Problem.ServeJSON
ServeJSON(wr, pd) ==
    Write(WriteHeader(SetHeader(wr, "Content-Type", ProblemContentType), pd.status),
          JsonOfProblem(pd))

\* ------------------------------------------------------------------- state

VARIABLES
    lineage,    \* the package whose handler adapter is registered
    config,     \* h.config, set by withConfig at registration
    h,          \* the adapter's resolved decoders
    shared,     \* a *Problem a user function keeps and returns again
    nreq,       \* requests started so far; the running request's context
    pc,         \* the position of the running request in handle
    req,        \* the running request
    res,        \* the user function's payload
    err,        \* the user function's error
    w,          \* the running request's http.ResponseWriter
    trace,      \* what handle did for the running request, in order
    target,     \* the handler the router dispatched the running request to
    fixed,      \* the *Problem values E holds for the NotFound and MethodNotAllowed fallbacks
    enriched,   \* per kept *Problem, how often Enrich was applied to it
    ctxDone,    \* the running request's context is cancelled
    setConfigs, \* the setConfig calls on the adapter so far: the API and the requests served before
    flow,       \* two requests served at the same time by one fallback adapter: their positions
    writers,    \* per shared object, the requests that wrote it
    mw,         \* per router (the API and its groups), the middleware registered with Use
    routes,     \* the routers a route was registered on
    passed      \* the middleware the last request ran through, outermost first

\* The state of the concurrent requests and of the routers' middleware.
concVars == <<flow, writers>>

groupVars == <<mw, routes, passed>>

vars == <<lineage, config, h, shared, nreq, pc, req, res, err, w, trace,
          target, fixed, enriched, ctxDone, setConfigs, concVars, groupVars>>

\* The requests in flight at once, by their contexts.
Flows == 1..MaxRequests

\* A request that has not arrived.
NoFlow == [pc |-> "idle", body |-> <<>>]

\* The fields of the shared *Problem, and the other objects requests share.
Objects == {"Type", "Instance", "config", "decoders"}

\* The API and the groups made from it: api.Group("/users"), the sub-group
\* Group("/admin") of that, and the sibling api.Group("/orders").
Routers == {"api", "/users", "/users/admin", "/orders"}

\* No request went through the middleware yet.
NoRun == [route |-> "none", chain |-> <<>>]

UnsupportedContentType == "text/xml"

Requests ==
    {r \in [rawQuery : BOOLEAN, params : BOOLEAN, contentLength : {0, 7},
            contentType : {JsonEncoding, UnsupportedContentType},
            bodyJSON : BOOLEAN] :
        r.contentLength = 0 => (r.contentType = JsonEncoding /\ ~r.bodyJSON)}

NoRequest ==
    [rawQuery |-> FALSE, params |-> FALSE, contentLength |-> 0,
     contentType |-> JsonEncoding, bodyJSON |-> FALSE]

\* What a response value can be: its capabilities (Headerer, StatusCoder) and
\* how encoding it ends.
HeaderSets == {"none", "foo", "content-type"}

EncodeResults == {"ok", "marshal error"}

Payloads ==
    [id : {"data"}, headerer : HeaderSets,
     statusCoder : {0, StatusTeapot}, enc : EncodeResults]

\* The zero value an erroring user function returns beside its error: a nil
\* pointer keeps the capabilities of its type.
NilPayloads ==
    {[id |-> "null", headerer |-> "none", statusCoder |-> 0, enc |-> "ok"],
     [id |-> "null", headerer |-> "foo", statusCoder |-> StatusTeapot, enc |-> "ok"]}

NoPayload == [id |-> "null", headerer |-> "none", statusCoder |-> 0, enc |-> "ok"]

NoError == [kind |-> "nil", problem |-> BadRequest]

Errors ==
    [kind : {"Problemer", "*Problem"}, problem : UserProblems]
    \cup {[kind |-> "shared *Problem", problem |-> BadRequest],
          [kind |-> "error", problem |-> BadRequest]}

\* What the function of E(err) returns beside its nil payload: the *Problem E
\* was given.  New builds the NotFound and MethodNotAllowed ones once; the
\* PanicHandler builds problem.Status(500) on every call.
FallbackError(t) ==
    IF t \in FallbackPtrs THEN [kind |-> "E *Problem", problem |-> BadRequest]
    ELSE [kind |-> "*Problem", problem |-> ProblemStatus(StatusInternalServerError)]

Ev(name, ok) == [ev |-> name, ok |-> ok]

Init ==
    /\ lineage \in Lineages
    /\ config \in ConfigsOf(lineage)
    /\ h \in Handlers
    /\ shared = Validation
    /\ nreq = 0
    /\ pc = "idle"
    /\ req = NoRequest
    /\ res = NoPayload
    /\ err = NoError
    /\ w = NewWriter
    /\ trace = <<>>
    /\ target = "route"
    /\ fixed = [p \in FallbackPtrs |->
                  IF p = "notfound" THEN NotFound ELSE ProblemStatus(StatusMethodNotAllowed)]
    /\ enriched = [p \in Ptrs |-> 0]
    /\ ctxDone = FALSE
    /\ setConfigs = <<[api |-> "api", served |-> 0]>>
    /\ flow = [f \in Flows |-> NoFlow]
    /\ writers = [o \in Objects |-> {}]
    /\ mw = [r \in {"api"} |-> <<>>]
    /\ routes = {}
    /\ passed = NoRun

\* ----------------------------------------------------------------- handle

\* The part of the state handle's helpers change.
Cur == [w |-> w, trace |-> trace, shared |-> shared, fixed |-> fixed,
        enriched |-> enriched]

Did(st, name, ok) == [st EXCEPT !.trace = Append(@, Ev(name, ok))]

\* serveProblem that calls ProblemLogFunc before Enrich.
serveProblemLogFirst(st, p, ptr) ==
    LET q == Enrich(config, nreq, p)
        s1 == IF config.ProblemLogFunc THEN Did(st, "log", TRUE) ELSE st
        s2 == Did(s1, "enrich", TRUE)
        s3 == Did(s2, "serve", TRUE)
    IN [s3 EXCEPT !.w = ServeJSON(st.w, q),
                  !.shared = IF ptr = "user" THEN q ELSE @,
                  !.fixed = IF ptr \in FallbackPtrs THEN [@ EXCEPT ![ptr] = q] ELSE @,
                  !.enriched = IF ptr \in Ptrs THEN [@ EXCEPT ![ptr] = @ + 1] ELSE @]

\* serveProblem of package japi: enrich, log when the hook is set, serve.  A
\* *Problem is enriched in place: ptr names the kept pointer p was read from,
\* or is "fresh" for a Problem built for this response.
serveProblem(st, p, ptr) ==
    LET q == Enrich(config, nreq, p)
        s1 == Did(st, "enrich", TRUE)
        s2 == IF config.ProblemLogFunc THEN Did(s1, "log", TRUE) ELSE s1
        s3 == Did(s2, "serve", TRUE)
    IN [s3 EXCEPT !.w = ServeJSON(st.w, q),
                  !.shared = IF ptr = "user" THEN q ELSE @,
                  !.fixed = IF ptr \in FallbackPtrs THEN [@ EXCEPT ![ptr] = q] ELSE @,
                  !.enriched = IF ptr \in Ptrs THEN [@ EXCEPT ![ptr] = @ + 1] ELSE @]

\* serveRequestProblem that builds the Problem and does not serve it.
serveRequestProblemUnserved(st, status) == st

\* serveRequestProblem of package japi; serveProblem(status) of package minimal.
serveRequestProblem(st, status) ==
    IF lineage = "japi" THEN serveProblem(st, BadRequest, "fresh")
    ELSE serveProblem(st, ProblemStatus(status), "fresh")

\* The decoders of the adapter that serves the request: H resolved h's for the
\* route; E(err) is H over *Empty, which has no tagged field.
Adapter ==
    IF target = "route" THEN h
    ELSE [decodeHeader |-> FALSE, decodeQuery |-> FALSE, decodePath |-> FALSE]

\* getDecoder(encoding): the body codec registered for the encoding.
getDecoder(encoding) == encoding = JsonEncoding

\* PhaseAfter with the query and path blocks of handle exchanged.
PhaseAfterPathFirst(phase) ==
    CASE phase = "routelog" -> "header"
      [] phase = "header" -> "path"
      [] phase = "path" -> "query"
      [] phase = "query" -> "body"
      [] phase = "body" -> "invoke"

\* The position after a decode phase that did not fail.
PhaseAfter(phase) ==
    CASE phase = "routelog" -> "header"
      [] phase = "header" -> "query"
      [] phase = "query" -> "path"
      [] phase = "path" -> "body"
      [] phase = "body" -> "invoke"

Install(st) ==
    /\ w' = st.w
    /\ trace' = st.trace
    /\ shared' = st.shared
    /\ fixed' = st.fixed
    /\ enriched' = st.enriched

\* The handlers the router dispatches to: the route's adapter, the NotFound
\* and MethodNotAllowed fallbacks, and the plain handlers LoadRawJson(f) and
\* RawJson(data) registered through wrapHandler.
Targets == {"route", "notfound", "notallowed", "loadrawjson", "rawjson"}

PlainTargets == {"loadrawjson", "rawjson"}

\* A request arrives and the router hands it to the handler t.
Arrive(t) ==
    /\ pc \in {"idle", "done"}
    /\ nreq < MaxRequests
    /\ nreq' = nreq + 1
    /\ req' \in Requests
    /\ pc' = IF t \in PlainTargets THEN t ELSE "routelog"
    /\ res' = NoPayload
    /\ err' = NoError
    /\ w' = NewWriter
    /\ trace' = <<>>
    /\ target' = t
    /\ ctxDone' = FALSE
    /\ UNCHANGED <<lineage, config, h, shared, fixed, enriched, setConfigs,
                   concVars, groupVars>>

\* A request arrives at the route's adapter.
NewRequest == Arrive("route")

\* A request arrives at any handler of the router.
Dispatch == \E t \in Targets : Arrive(t)

\* if h.config.RouteLogFunc != nil { ... }
RouteLog ==
    /\ pc = "routelog"
    /\ trace' = IF config.RouteLogFunc THEN Append(trace, Ev("routelog", TRUE)) ELSE trace
    /\ pc' = PhaseAfter("routelog")
    /\ UNCHANGED <<lineage, config, h, shared, fixed, enriched, nreq, req, res, err, w, target, ctxDone, setConfigs,
                 concVars, groupVars>>

\* DecodePhase without the return after serveRequestProblem(e).
DecodePhaseNoReturn(phase, guard, outcomes, status) ==
    /\ pc = phase
    /\ IF guard
       THEN \E ok \in outcomes :
              IF ok
              THEN Install(Did(Cur, phase, TRUE))
              ELSE Install(serveRequestProblem(Did(Cur, phase, FALSE), status))
       ELSE UNCHANGED <<w, trace, shared, fixed, enriched>>
    /\ pc' = PhaseAfter(phase)
    /\ UNCHANGED <<lineage, config, h, nreq, req, res, err, target, ctxDone, setConfigs,
                 concVars, groupVars>>

\* One decode phase: skipped when its guard is false; a failure serves a
\* Problem and returns.
DecodePhase(phase, guard, outcomes, status) ==
    /\ pc = phase
    /\ IF guard
       THEN \E ok \in outcomes :
              IF ok
              THEN /\ Install(Did(Cur, phase, TRUE))
                   /\ pc' = PhaseAfter(phase)
              ELSE /\ Install(serveRequestProblem(Did(Cur, phase, FALSE), status))
                   /\ pc' = "done"
       ELSE /\ pc' = PhaseAfter(phase)
            /\ UNCHANGED <<w, trace, shared, fixed, enriched>>
    /\ UNCHANGED <<lineage, config, h, nreq, req, res, err, target, ctxDone, setConfigs,
                 concVars, groupVars>>

\* DecodeQuery without the test of the raw query string.
DecodeQueryAlways ==
    DecodePhase("query", Adapter.decodeQuery, BOOLEAN, StatusBadRequest)

DecodeHeader == DecodePhase("header", Adapter.decodeHeader, BOOLEAN, StatusBadRequest)

DecodeQuery ==
    DecodePhase("query", Adapter.decodeQuery /\ req.rawQuery, BOOLEAN, StatusBadRequest)

DecodePath ==
    DecodePhase("path", Adapter.decodePath /\ req.params, BOOLEAN, StatusBadRequest)

\* if r.ContentLength > 0 { dec, e := getDecoder(JsonEncoding) ... dec(r, req) }
DecodeBody ==
    IF getDecoder(JsonEncoding)
    THEN DecodePhase("body", req.contentLength > 0, {req.bodyJSON}, StatusBadRequest)
    ELSE DecodePhase("body", req.contentLength > 0, {FALSE}, StatusNotAcceptable)

\* Invoke that calls the user function again when its first call failed.
InvokeRetry ==
    /\ pc = "invoke"
    /\ IF target = "route"
       THEN \/ /\ res' \in Payloads
               /\ err' = NoError
            \/ /\ res' \in NilPayloads
               /\ err' \in Errors
       ELSE /\ res' = NoPayload
            /\ err' = FallbackError(target)
    /\ trace' = Append(trace, Ev("invoke", TRUE))
    /\ w' = SetHeader(w, "Content-Type", JsonContentType)
    /\ pc' = IF err'.kind # "nil" /\ (\A i \in DOMAIN trace : trace[i].ev # "invoke")
             THEN "invoke" ELSE "respond"
    /\ UNCHANGED <<lineage, config, h, shared, fixed, enriched, nreq, req, target, ctxDone, setConfigs,
                 concVars, groupVars>>

\* res, e := h.handler(r.Context(), *req); w.Header().Set("Content-Type", ...)
Invoke ==
    /\ pc = "invoke"
    /\ IF target = "route"
       THEN \/ /\ res' \in Payloads
               /\ err' = NoError
            \/ /\ res' \in NilPayloads
               /\ err' \in Errors
       ELSE /\ res' = NoPayload
            /\ err' = FallbackError(target)
    /\ trace' = Append(trace, Ev("invoke", TRUE))
    /\ w' = SetHeader(w, "Content-Type", JsonContentType)
    /\ pc' = "respond"
    /\ UNCHANGED <<lineage, config, h, shared, fixed, enriched, nreq, req, target, ctxDone, setConfigs,
                 concVars, groupVars>>

\* h.Header() of a payload that is a Headerer.
PayloadHeader(r) ==
    CASE r.headerer = "foo" -> [k \in {"foo"} |-> "bar"]
      [] r.headerer = "content-type" -> [k \in {"Content-Type"} |-> "text/plain"]
      [] OTHER -> <<>>

\* for k, v := range h.Header() { headers[k] = v }
MergeHeaders(wr, hd) ==
    [wr EXCEPT !.header = [k \in HeaderKeys |-> IF k \in DOMAIN hd THEN hd[k] ELSE @[k]]]

\* json.NewEncoder(w).Encode(res): the writer after it.  The encoder marshals
\* into its buffer first, so a marshal error writes nothing.
Encode(wr, r) ==
    IF r.enc = "ok" THEN Write(wr, JsonOfPayload(r)) ELSE wr

\* EncodeFailed that only logs the error, in both packages.
EncodeFailedLogged(st) == Did(st, "println", TRUE)

\* What handle does when Encode returned an error: package japi serves an
\* unexpected Problem, package minimal logs the error.
EncodeFailed(st) ==
    IF lineage = "japi" THEN serveProblem(st, Unexpected, "fresh")
    ELSE Did(st, "println", TRUE)

\* Success without the StatusCoder block.
SuccessNoStatusCoder(st, r) ==
    LET s1 == IF r.headerer # "none"
              THEN [Did(st, "headers", TRUE) EXCEPT
                      !.w = MergeHeaders(st.w, PayloadHeader(r))]
              ELSE st
        s3 == [Did(s1, "encode", r.enc = "ok") EXCEPT !.w = Encode(s1.w, r)]
    IN IF r.enc = "ok" THEN s3 ELSE EncodeFailed(s3)

\* The success path: custom headers, status override, body.
Success(st, r) ==
    LET s1 == IF r.headerer # "none"
              THEN [Did(st, "headers", TRUE) EXCEPT
                      !.w = MergeHeaders(st.w, PayloadHeader(r))]
              ELSE st
        s2 == IF r.statusCoder # 0
              THEN [Did(s1, "status", TRUE) EXCEPT
                      !.w = WriteHeader(s1.w, r.statusCoder)]
              ELSE s1
        s3 == [Did(s2, "encode", r.enc = "ok") EXCEPT !.w = Encode(s2.w, r)]
    IN IF r.enc = "ok" THEN s3 ELSE EncodeFailed(s3)

\* if pb, ok := e.(Problemer); ok { p := pb.Problem(); serveProblem(&p); return }
\* Package minimal has no return here and goes on with the success path.
OnProblemer(st, e, r) ==
    IF lineage = "japi" THEN serveProblem(st, e.problem, "fresh")
    ELSE Success(serveProblem(st, e.problem, "fresh"), r)

\* The response for the user function's result (res, e).
Response(st, e, r) ==
    CASE e.kind = "nil" -> Success(st, r)
      [] e.kind = "Problemer" -> OnProblemer(st, e, r)
      [] e.kind = "*Problem" -> serveProblem(st, e.problem, "fresh")
      [] e.kind = "shared *Problem" -> serveProblem(st, st.shared, "user")
      [] e.kind = "E *Problem" -> serveProblem(st, st.fixed[target], target)
      [] e.kind = "error" -> serveProblem(st, Unexpected, "fresh")

Respond ==
    /\ pc = "respond"
    /\ Install(Response(Cur, err, res))
    /\ pc' = "done"
    /\ UNCHANGED <<lineage, config, h, nreq, req, res, err, target, ctxDone, setConfigs,
                 concVars, groupVars>>

handle ==
    \/ RouteLog
    \/ DecodeHeader
    \/ DecodeQuery
    \/ DecodePath
    \/ DecodeBody
    \/ Invoke
    \/ Respond

Next == NewRequest \/ handle

Spec == Init /\ [][Next]_vars

\* A request being served is served to its end: handle is sequential code.
FairSpec == Spec /\ WF_vars(handle)

\* ------------------------------------------------------------- the router

\* http.Error(w, text, code)
HttpError(wr, code) ==
    Write(WriteHeader(SetHeader(wr, "Content-Type", "text/plain; charset=utf-8"), code),
          [kind |-> "text", of |-> "e.Error()"])

\* The handler RawJson(data) returns, run on the writer wr.
RawJson(wr) ==
    Write(SetHeader(wr, "Content-Type", JsonEncoding), [kind |-> "raw", of |-> "data"])

\* The handler LoadRawJson(f) returns, run on the writer wr; loaded says f
\* returned no error.  RawJson(json) is called for its result, a handler, and
\* the result is dropped: nothing is written.
LoadRawJson(wr, loaded) ==
    IF ~loaded THEN HttpError(wr, StatusInternalServerError) ELSE wr

\* wrapHandler(LoadRawJson(f)) serves the request.
ServeLoadRawJson ==
    /\ pc = "loadrawjson"
    /\ \E loaded \in BOOLEAN :
          /\ w' = LoadRawJson(w, loaded)
          /\ trace' = Append(trace, Ev("load", loaded))
    /\ pc' = "done"
    /\ UNCHANGED <<lineage, config, h, shared, fixed, enriched, nreq, req, res, err,
                   target, ctxDone, setConfigs, concVars, groupVars>>

\* wrapHandler(RawJson(data)) serves the request.
ServeRawJson ==
    /\ pc = "rawjson"
    /\ w' = RawJson(w)
    /\ trace' = Append(trace, Ev("raw", TRUE))
    /\ pc' = "done"
    /\ UNCHANGED <<lineage, config, h, shared, fixed, enriched, nreq, req, res, err,
                   target, ctxDone, setConfigs, concVars, groupVars>>

\* The user function panics.  httprouter recovers and calls PanicHandler when
\* one is set: New of package japi sets it to serve E(problem.Status(500)) on
\* the same writer and request, whose body the route's adapter has read to
\* its end; New of package minimal sets none and the panic leaves the router.
UserPanics ==
    /\ pc = "invoke"
    /\ target = "route"
    /\ IF lineage = "japi"
       THEN /\ target' = "panic"
            /\ pc' = "routelog"
            /\ req' = [req EXCEPT !.bodyJSON = FALSE]
            /\ trace' = <<Ev("panic", TRUE)>>
       ELSE /\ pc' = "crashed"
            /\ trace' = Append(trace, Ev("panic", TRUE))
            /\ UNCHANGED <<target, req>>
    /\ UNCHANGED <<lineage, config, h, shared, fixed, enriched, nreq, res, err, w,
                   ctxDone, setConfigs, concVars, groupVars>>

\* The client goes away: the request's context is cancelled.
Cancel ==
    /\ pc \notin {"idle", "done", "crashed"}
    /\ ~ctxDone
    /\ ctxDone' = TRUE
    /\ UNCHANGED <<lineage, config, h, shared, fixed, enriched, nreq, pc, req, res, err,
                   w, trace, target, setConfigs, concVars, groupVars>>

RouterNext ==
    \/ Dispatch
    \/ handle
    \/ ServeLoadRawJson
    \/ ServeRawJson
    \/ UserPanics
    \/ Cancel

\* The route's adapter has every decoder.
RouterInit ==
    /\ Init
    /\ h = [decodeHeader |-> TRUE, decodeQuery |-> TRUE, decodePath |-> TRUE]

\* Requests served by the handler httprouter picks: a route, a fallback or a
\* plain handler.
RouterSpec == RouterInit /\ [][RouterNext]_vars

\* --------------------------------------------------------- registration

\* The API instances an adapter is registered on, each with its Config.
Apis == {"api", "admin"}

ApiConfig(a) ==
    IF a = "api"
    THEN [RouteLogFunc |-> TRUE, ProblemLogFunc |-> TRUE,
          ProblemTypeUrlFormat |-> DefaultTypeUrlFormat, ProblemInstanceFunc |-> TRUE]
    ELSE [RouteLogFunc |-> FALSE, ProblemLogFunc |-> FALSE,
          ProblemTypeUrlFormat |-> UrnTypeFormat, ProblemInstanceFunc |-> FALSE]

\* API.Handle(method, path, handle) for a Handler: withConfig(h, r.config)
\* calls h.setConfig(c), on every registration.
Register ==
    /\ pc \in {"idle", "done"}
    /\ Len(setConfigs) < MaxRegistrations
    /\ \E a \in Apis :
          /\ setConfigs' = Append(setConfigs, [api |-> a, served |-> nreq])
          /\ config' = ApiConfig(a)
    /\ UNCHANGED <<lineage, h, shared, fixed, enriched, nreq, pc, req, res, err, w, trace,
                   target, ctxDone, concVars, groupVars>>

\* The adapter H(fn) of package japi as constructed: no setConfig yet.
RegInit ==
    /\ lineage = "japi"
    /\ config = ApiConfig("api")
    /\ h \in Handlers
    /\ shared = Validation
    /\ nreq = 0
    /\ pc = "idle"
    /\ req = NoRequest
    /\ res = NoPayload
    /\ err = NoError
    /\ w = NewWriter
    /\ trace = <<>>
    /\ target = "route"
    /\ fixed = [p \in FallbackPtrs |->
                  IF p = "notfound" THEN NotFound ELSE ProblemStatus(StatusMethodNotAllowed)]
    /\ enriched = [p \in Ptrs |-> 0]
    /\ ctxDone = FALSE
    /\ setConfigs = <<>>
    /\ flow = [f \in Flows |-> NoFlow]
    /\ writers = [o \in Objects |-> {}]
    /\ mw = [r \in {"api"} |-> <<>>]
    /\ routes = {}
    /\ passed = NoRun

\* A request arrives on a route the adapter is registered on.
RouteRequest ==
    /\ setConfigs # <<>>
    /\ Arrive("route")

RegNext == Register \/ RouteRequest \/ handle

\* An adapter that is registered, on one or several APIs or routes, and
\* serves the requests of its routes.
RegSpec == RegInit /\ [][RegNext]_vars

\* ------------------------------------------------- concurrent requests

\* The statements of serveProblem for the request f, served by the NotFound
\* adapter at the same time as other requests: net/http runs each request on
\* its own goroutine and every one of them gets the *Problem E holds.
ConcArrive(f) ==
    /\ flow[f].pc = "idle"
    /\ flow' = [flow EXCEPT ![f].pc = "type"]
    /\ UNCHANGED <<lineage, config, h, shared, nreq, pc, req, res, err, w, trace,
                   target, fixed, enriched, ctxDone, setConfigs, writers, groupVars>>

\* Enrich, first statement: p.Type = fmt.Sprintf(cfg.ProblemTypeUrlFormat, p.Type)
EnrichType(f) ==
    /\ flow[f].pc = "type"
    /\ LET p == fixed["notfound"]
           q == Enrich([config EXCEPT !.ProblemInstanceFunc = FALSE], f, p)
       IN /\ fixed' = [fixed EXCEPT !["notfound"] = q]
          /\ writers' = IF q # p THEN [writers EXCEPT !["Type"] = @ \cup {f}] ELSE writers
    /\ flow' = [flow EXCEPT ![f].pc = "instance"]
    /\ UNCHANGED <<lineage, config, h, shared, nreq, pc, req, res, err, w, trace,
                   target, enriched, ctxDone, setConfigs, groupVars>>

\* Enrich, second statement: p.Instance = cfg.ProblemInstanceFunc(ctx)
EnrichInstance(f) ==
    /\ flow[f].pc = "instance"
    /\ LET p == fixed["notfound"]
           q == Enrich([config EXCEPT !.ProblemTypeUrlFormat = NoFormat], f, p)
       IN /\ fixed' = [fixed EXCEPT !["notfound"] = q]
          /\ writers' = IF config.ProblemInstanceFunc
                        THEN [writers EXCEPT !["Instance"] = @ \cup {f}] ELSE writers
    /\ enriched' = [enriched EXCEPT !["notfound"] = @ + 1]
    /\ flow' = [flow EXCEPT ![f].pc = "serve"]
    /\ UNCHANGED <<lineage, config, h, shared, nreq, pc, req, res, err, w, trace,
                   target, ctxDone, setConfigs, groupVars>>

\* p.ServeJSON(w): the request's response is the Problem as the pointer holds
\* it now.
ServeFixed(f) ==
    /\ flow[f].pc = "serve"
    /\ flow' = [flow EXCEPT ![f] = [pc |-> "done",
                                    body |-> <<JsonOfProblem(fixed["notfound"])>>]]
    /\ UNCHANGED <<lineage, config, h, shared, nreq, pc, req, res, err, w, trace,
                   target, fixed, enriched, ctxDone, setConfigs, writers, groupVars>>

ConcInit ==
    /\ Init
    /\ lineage = "japi"

ConcNext ==
    \E f \in Flows : ConcArrive(f) \/ EnrichType(f) \/ EnrichInstance(f) \/ ServeFixed(f)

\* Requests to unregistered paths of one API, served concurrently.
ConcSpec == ConcInit /\ [][ConcNext]_vars

\* ------------------------------------------------- groups and middleware

\* The middleware values of the README's example, each registered once.
Middlewares == {"logging", "auth", "cors"}

\* The router a group was made from.
Parent(r) ==
    CASE r = "/users" -> "api"
      [] r = "/orders" -> "api"
      [] r = "/users/admin" -> "/users"

RECURSIVE AncestorsOrSelf(_)
AncestorsOrSelf(r) == IF r = "api" THEN {"api"} ELSE {r} \cup AncestorsOrSelf(Parent(r))

Range(seq) == {seq[i] : i \in DOMAIN seq}

RECURSIVE Reverse(_)
Reverse(seq) == IF seq = <<>> THEN <<>> ELSE Append(Reverse(Tail(seq)), Head(seq))

\* API.Router: the API's middleware around the router, outermost first.
\* Package japi wraps from the last registered to the first, so the first
\* registered is outermost; package minimal wraps in registration order, so
\* the last registered is outermost.
RouterChain(list) == IF lineage = "japi" THEN list ELSE Reverse(list)

\* GroupChain that gives a group the middleware of every group.
GroupChainOfAll(r) ==
    LET gs == DOMAIN mw \ {"api"}
        Cat[S \in SUBSET gs] ==
            IF S = {} THEN <<>> ELSE LET g == CHOOSE x \in S : TRUE IN mw[g] \o Cat[S \ {g}]
    IN Cat[gs]

\* The middleware of the group r and of the groups above it, outermost first:
\* a group's middleware follows its ancestors'.
RECURSIVE GroupChain(_)
GroupChain(r) == IF r = "api" THEN <<>> ELSE GroupChain(Parent(r)) \o mw[r]

\* The middleware a request to a route of r runs through before its handler.
Effective(r) == RouterChain(mw["api"]) \o GroupChain(r)

Used == UNION {Range(mw[r]) : r \in DOMAIN mw}

\* Router.Group(path): a group of the router parent.
Group ==
    /\ \E r \in Routers \ DOMAIN mw :
          /\ Parent(r) \in DOMAIN mw
          /\ mw' = [x \in DOMAIN mw \cup {r} |-> IF x = r THEN <<>> ELSE mw[x]]
    /\ UNCHANGED <<lineage, config, h, shared, nreq, pc, req, res, err, w, trace,
                   target, fixed, enriched, ctxDone, setConfigs, concVars, routes, passed>>

\* Router.Use(m): r.mw = append(r.mw, m)
Use ==
    /\ \E r \in DOMAIN mw, m \in Middlewares \ Used :
          mw' = [mw EXCEPT ![r] = Append(@, m)]
    /\ UNCHANGED <<lineage, config, h, shared, nreq, pc, req, res, err, w, trace,
                   target, fixed, enriched, ctxDone, setConfigs, concVars, routes, passed>>

\* Router.Get(path, handler) on the router r.
HandleRoute ==
    /\ \E r \in DOMAIN mw \ routes : routes' = routes \cup {r}
    /\ UNCHANGED <<lineage, config, h, shared, nreq, pc, req, res, err, w, trace,
                   target, fixed, enriched, ctxDone, setConfigs, concVars, mw, passed>>

\* A request to the route of the router r runs through the middleware.
GroupRequest ==
    /\ \E r \in routes : passed' = [route |-> r, chain |-> Effective(r)]
    /\ UNCHANGED <<lineage, config, h, shared, nreq, pc, req, res, err, w, trace,
                   target, fixed, enriched, ctxDone, setConfigs, concVars, mw, routes>>

\* A request to a path or method no route matches: the router, inside the
\* API's middleware, hands it to NotFound or MethodNotAllowed.
FallbackRequest ==
    /\ passed' = [route |-> "api", chain |-> RouterChain(mw["api"])]
    /\ UNCHANGED <<lineage, config, h, shared, nreq, pc, req, res, err, w, trace,
                   target, fixed, enriched, ctxDone, setConfigs, concVars, mw, routes>>

GroupInit ==
    /\ Init
    /\ h = [decodeHeader |-> TRUE, decodeQuery |-> TRUE, decodePath |-> TRUE]
    /\ config = ApiConfig("admin")

GroupNext == Group \/ Use \/ HandleRoute \/ GroupRequest \/ FallbackRequest

\* Groups, middleware and routes registered in any order, and requests.
GroupSpec == GroupInit /\ [][GroupNext]_vars

\* ------------------------------------------------------- Enrich, repeated

\* The Problems Enrich is applied to: an about:blank type, a short type, an
\* http(s) type and a urn: type, with and without an instance.
EnrichInputs ==
    {[p EXCEPT !.instance = i] :
        p \in {ProblemStatus(StatusMethodNotAllowed), Validation, NotCurrent,
               Problem(<<"urn:problem:", "gone">>, StatusNotFound)},
        i \in {NoInstance, <<"https://example.com/trace/", 0>>}}

EnrichInit ==
    /\ lineage = "japi"
    /\ config \in Configs
    /\ h = [decodeHeader |-> TRUE, decodeQuery |-> TRUE, decodePath |-> TRUE]
    /\ shared \in EnrichInputs
    /\ nreq \in 1..MaxRequests
    /\ pc = "idle"
    /\ req = NoRequest
    /\ res = NoPayload
    /\ err = NoError
    /\ w = NewWriter
    /\ trace = <<>>
    /\ target = "route"
    /\ fixed = [p \in FallbackPtrs |->
                  IF p = "notfound" THEN NotFound ELSE ProblemStatus(StatusMethodNotAllowed)]
    /\ enriched = [p \in Ptrs |-> 0]
    /\ ctxDone = FALSE
    /\ setConfigs = <<[api |-> "api", served |-> 0]>>
    /\ flow = [f \in Flows |-> NoFlow]
    /\ writers = [o \in Objects |-> {}]
    /\ mw = [r \in {"api"} |-> <<>>]
    /\ routes = {}
    /\ passed = NoRun

\* cfg.Enrich(ctx, p) on the Problem p, with the configuration and the
\* context of the run before.
EnrichAgain ==
    /\ enriched["user"] < MaxEnrich
    /\ shared' = Enrich(config, nreq, shared)
    /\ enriched' = [enriched EXCEPT !["user"] = @ + 1]
    /\ UNCHANGED <<lineage, config, h, nreq, pc, req, res, err, w, trace, target, fixed,
                   ctxDone, setConfigs, concVars, groupVars>>

\* Enrich applied again and again to one Problem.
EnrichSpec == EnrichInit /\ [][EnrichAgain]_vars

\* ------------------------------------------------------------ the requests

DecodePhases == {"header", "query", "path", "body"}

Rank(name) ==
    CASE name = "header" -> 1
      [] name = "query" -> 2
      [] name = "path" -> 3
      [] name = "body" -> 4
      [] name = "invoke" -> 5
      [] OTHER -> 0

\* The positions of trace at which the event name stands.
At(name) == {i \in DOMAIN trace : trace[i].ev = name}

Count(name) == Cardinality(At(name))

FailedDecodes == {i \in DOMAIN trace : trace[i].ev \in DecodePhases /\ ~trace[i].ok}

\* C1: fail-fast. After a decode phase has failed for a request, no decode phase
\* runs and the user function is not invoked for that request.
C1_FailFast ==
    \A i \in FailedDecodes :
        \A j \in DOMAIN trace :
            j > i => trace[j].ev \notin DecodePhases \cup {"invoke"}

\* A header decode failed, a Problem was served for it and the request is over.
C1_Witness ==
    /\ pc = "done"
    /\ \E i \in FailedDecodes : trace[i].ev = "header"
    /\ Count("serve") = 1
    /\ req.rawQuery /\ h.decodeQuery /\ req.contentLength > 0

\* The guard of a decode phase for the running request.
Applies(phase) ==
    CASE phase = "header" -> Adapter.decodeHeader
      [] phase = "query" -> Adapter.decodeQuery /\ req.rawQuery
      [] phase = "path" -> Adapter.decodePath /\ req.params
      [] phase = "body" -> req.contentLength > 0

\* C2: the decode phases that run do so in the order header, query, path,
\* body, each at most once, and the user function is invoked only after every
\* phase that applies to the request has completed successfully.
C2_PhaseOrder ==
    /\ \A i, j \in DOMAIN trace :
          (i < j /\ Rank(trace[i].ev) > 0 /\ Rank(trace[j].ev) > 0)
              => Rank(trace[i].ev) < Rank(trace[j].ev)
    /\ \A i \in At("invoke") :
          \A phase \in DecodePhases :
              Applies(phase) => \E k \in 1..(i - 1) : trace[k] = Ev(phase, TRUE)

\* All four phases ran, and then the user function.
C2_Witness ==
    /\ Count("invoke") = 1
    /\ \A phase \in DecodePhases : Count(phase) = 1

\* The two response branches of handle: a Problem was served (ErrorRespond);
\* the payload's headers, status and body were written (SuccessRespond).
ErrorResponded == Count("serve") > 0

SuccessResponded == Count("encode") > 0

Problems(body) == {i \in DOMAIN body : body[i].kind = "problem"}

\* C3: for every request exactly one of the two response branches executes,
\* never both and never neither, whatever the user function returns and also
\* when encoding the payload fails.
C3_ExactlyOneBranch ==
    pc = "done" => (ErrorResponded /\ ~SuccessResponded) \/ (SuccessResponded /\ ~ErrorResponded)

\* C4: the status field of every Problem written in the body equals the status
\* line written for the response.
C4_StatusMatches ==
    \A i \in Problems(w.body) : w.body[i].status = w.status

InFlight == pc \notin {"idle", "done"}

C6_OneProblem ==
    /\ Count("serve") <= 1
    /\ (pc = "done" /\ (FailedDecodes # {} \/ err.kind # "nil")) => Count("serve") = 1

\* The user function returned an error and one Problem was served.
C6_Witness ==
    /\ pc = "done" /\ err.kind = "error" /\ Count("serve") = 1
    /\ Cardinality(Problems(w.body)) = 1

\* C7: the user function is invoked at most once per request.
C7_InvokedOnce == Count("invoke") <= 1

\* The user function failed, the request is over and the function ran once.
C7_Witness == pc = "done" /\ err.kind = "error" /\ Count("invoke") = 1

\* The status of a success response: the payload's StatusCode(), or 200.
SuccessStatus(r) == IF r.statusCoder # 0 THEN r.statusCoder ELSE StatusOK

Succeeded == pc = "done" /\ Count("invoke") = 1 /\ err.kind = "nil"

\* C8 as stated: whenever decoding succeeded and the user function returned no
\* error, the status is the payload's StatusCode() or 200 and the body is the
\* JSON encoding of the payload.
C8_SuccessResponse ==
    Succeeded => (w.status = SuccessStatus(res) /\ w.body = <<JsonOfPayload(res)>>)

\* C8 amended: the same, for a payload whose JSON encoding succeeds.
C8_SuccessResponseEncoded ==
    (Succeeded /\ res.enc = "ok")
        => (w.status = SuccessStatus(res) /\ w.body = <<JsonOfPayload(res)>>)

\* A StatusCoder payload was encoded: 418 and the payload's JSON.
C8_Witness ==
    /\ Succeeded /\ res.enc = "ok" /\ res.statusCoder = StatusTeapot
    /\ w.status = StatusTeapot

\* C9: a response carries Content-Type application/problem+json when it is an
\* error response and application/json; charset=utf-8 when it is a success
\* response, also with custom payload headers and with late errors.
C9_ContentType ==
    pc = "done" => w.sent["Content-Type"] =
                     (IF ErrorResponded THEN ProblemContentType ELSE JsonContentType)

\* C10: a request with a positive Content-Length and an unsupported
\* Content-Type never reaches the user function and is answered with a 4xx
\* Problem, whatever its body.
C10_UnsupportedRejected ==
    (req.contentLength > 0 /\ req.contentType # JsonEncoding)
        => /\ Count("invoke") = 0
           /\ pc = "done" => (w.status \in 400..499 /\ Problems(w.body) # {})

\* The Problem handle picks for the user function's error e, by the priority
\* of the type switch: e.(Problemer), then e.(*problem.Problem), then any
\* other error as the unexpected 500.  For the kept *Problem the value is the
\* one the pointer holds after it was served.
PickedProblem(e) ==
    CASE e.kind \in {"Problemer", "*Problem"} -> Enrich(config, nreq, e.problem)
      [] e.kind = "shared *Problem" -> shared
      [] OTHER -> Enrich(config, nreq, Unexpected)

SuccessEvents == {"headers", "status", "encode"}

\* C11: when the user function returns an error, the Problem written is the
\* one the priority Problemer, *Problem, unexpected 500 selects, and after it
\* is served nothing of the success payload (headers, status, body) is
\* processed.
C11_ErrorOnly ==
    (pc = "done" /\ err.kind # "nil")
        => /\ w.body = <<JsonOfProblem(PickedProblem(err))>>
           /\ \A i \in DOMAIN trace : trace[i].ev \notin SuccessEvents

\* C18: no response that carries a Problem contains a header of the payload's
\* Header(), the 500 after an encode failure included.
C18_NoPayloadHeaders ==
    (pc = "done" /\ Problems(w.body) # {})
        => /\ w.sent["foo"] = ""
           /\ w.sent["Content-Type"] # "text/plain"

\* A type that is an absolute URI: it has a scheme.
IsAbsoluteURI(t) == t # <<>> /\ t[1] \in HttpPieces \cup {"urn:problem:", "about:"}

\* The kept *Problem values by pointer, in this state.
Kept == [p \in Ptrs |-> IF p = "user" THEN shared ELSE fixed[p]]

\* The same in the next state.
KeptNext == [p \in Ptrs |-> IF p = "user" THEN shared' ELSE fixed'[p]]

\* This step applied Enrich to the *Problem at p.
Enriches(p) == enriched'[p] = enriched[p] + 1

\* C12 as stated: Enrich rewrites type to the format applied to type if and
\* only if type is not about:blank and not already an absolute URI, and leaves
\* it unchanged otherwise; instance is set from the hook exactly when the hook
\* is configured.
C12_EnrichAbsolute ==
    [][\A p \in Ptrs : Enriches(p) =>
          /\ KeptNext[p].type =
                IF Kept[p].type # BlankType /\ ~IsAbsoluteURI(Kept[p].type)
                THEN Sprintf(config.ProblemTypeUrlFormat, Kept[p].type)
                ELSE Kept[p].type
          /\ KeptNext[p].instance =
                IF config.ProblemInstanceFunc THEN InstanceOf(nreq) ELSE Kept[p].instance]_vars

\* C12 amended: the rewrite happens if and only if a format is configured,
\* type is not about:blank and type does not begin with "http".
C12_EnrichHttpPrefix ==
    [][\A p \in Ptrs : Enriches(p) =>
          /\ KeptNext[p].type =
                IF /\ config.ProblemTypeUrlFormat # NoFormat
                   /\ Kept[p].type # BlankType
                   /\ ~HasPrefixHttp(Kept[p].type)
                THEN Sprintf(config.ProblemTypeUrlFormat, Kept[p].type)
                ELSE Kept[p].type
          /\ KeptNext[p].instance =
                IF config.ProblemInstanceFunc THEN InstanceOf(nreq) ELSE Kept[p].instance]_vars

\* Enrich rewrote a urn: type again, left an about:blank type alone and set
\* the instance of the second request.
C12_Witness ==
    /\ pc = "done"
    /\ config.ProblemTypeUrlFormat = UrnTypeFormat /\ config.ProblemInstanceFunc
    /\ enriched["notfound"] = 2 /\ enriched["notallowed"] = 0
    /\ fixed["notfound"].type = Sprintf(UrnTypeFormat, Sprintf(UrnTypeFormat, NotFound.type))
    /\ fixed["notfound"].instance = InstanceOf(nreq)

\* C13: over any sequence of requests Enrich is applied at most once to any
\* Problem instance, the fixed Problems E holds for the fallbacks and a
\* *Problem a user function returns on more than one request included.
C13_EnrichedOnce == \A p \in Ptrs : enriched[p] <= 1

\* C16: the fallbacks serve a fixed Problem: 404 for an unregistered path, 405
\* for a method that is not registered, 500 for a panic; no panic leaves the
\* router.
C16_Fallbacks ==
    /\ pc # "crashed"
    /\ (pc = "done" /\ target = "notfound")
          => (w.status = StatusNotFound /\ w.body = <<JsonOfProblem(fixed["notfound"])>>)
    /\ (pc = "done" /\ target = "notallowed")
          => (w.status = StatusMethodNotAllowed
              /\ w.body = <<JsonOfProblem(fixed["notallowed"])>>)
    /\ (pc = "done" /\ target = "panic")
          => (w.status = StatusInternalServerError /\ Cardinality(Problems(w.body)) = 1)

\* C17: when the request's context is already cancelled as the decode phases
\* finish, the user function is not invoked.
C17_NoInvokeWhenCancelled ==
    [][(ctxDone /\ target = "route") => Count("invoke")' <= Count("invoke")]_vars

\* C20: the handler LoadRawJson(f) writes f's bytes with Content-Type
\* application/json when f returns no error, and answers 500 with the error
\* text when f returns an error.
C20_LoadRawJson ==
    (pc = "done" /\ target = "loadrawjson")
        => IF trace[1].ok
           THEN /\ w.sent["Content-Type"] = JsonEncoding
                /\ w.body = <<[kind |-> "raw", of |-> "data"]>>
           ELSE /\ w.status = StatusInternalServerError
                /\ w.body = <<[kind |-> "text", of |-> "e.Error()"]>>

\* C15: the adapter's config is set exactly once, before serving: setConfig
\* runs once, never after a request was served, and handle never runs with a
\* nil config.
C15_ConfigSetOnce ==
    /\ Len(setConfigs) <= 1
    /\ \A i \in DOMAIN setConfigs : setConfigs[i].served = 0
    /\ InFlight => setConfigs # <<>>

\* C14: no mutable object is written by two different requests: the objects
\* requests share (the config, the resolved decoders, the error E holds) are
\* only read, so concurrent requests never race on a write.
C14_NoSharedWrites == \A o \in Objects : Cardinality(writers[o]) <= 1

C21_RegistrationOrder ==
    [][passed' # passed =>
          /\ Len(passed'.chain) >= Len(mw["api"])
          /\ SubSeq(passed'.chain, 1, Len(mw["api"])) = mw["api"]]_vars

\* How far handle has come, on the scale of Rank.
PcRank == IF pc \in {"respond", "done"} THEN Rank("invoke") + 1 ELSE Rank(pc)

\* The decode phases handle has reached and left: those before its position
\* and not after a phase that failed.
ReachedPhases ==
    {ph \in DecodePhases :
        /\ PcRank > Rank(ph)
        /\ \A i \in FailedDecodes : Rank(trace[i].ev) >= Rank(ph)}

\* C22: a decode phase that handle reaches runs exactly under its guard: the
\* header phase iff a header decoder was resolved, the query phase iff a query
\* decoder was resolved and the raw query is non-empty, the path phase iff a
\* path decoder was resolved and a route parameter was captured, the body
\* phase iff the content length is positive.  A skipped phase does nothing
\* and fails no request.
C22_RunsUnderGuard ==
    /\ \A ph \in ReachedPhases : (Count(ph) = 1) <=> Applies(ph)
    /\ \A ph \in DecodePhases : Count(ph) > 0 => Applies(ph)
    /\ \A i \in FailedDecodes : Applies(trace[i].ev)

\* The query decoder exists and the raw query is empty: the phase was skipped,
\* the body phase ran and the user function was invoked.
C22_Witness ==
    /\ pc = "done" /\ target = "route"
    /\ h.decodeQuery /\ ~req.rawQuery
    /\ Count("query") = 0 /\ Count("body") = 1 /\ Count("invoke") = 1

\* The events of one served Problem that end at the serve event at i.
ServedSteps(i) ==
    IF config.ProblemLogFunc
    THEN i > 2 /\ trace[i - 2].ev = "enrich" /\ trace[i - 1].ev = "log"
    ELSE i > 1 /\ trace[i - 1].ev = "enrich"

\* C23: every Problem served goes through enrich, then log, then serve, once
\* each: ProblemLogFunc is called once per served Problem when it is set and
\* not at all when it is nil, and the response of a failed decode is the same
\* either way; RouteLogFunc is called once per request, before any decode
\* phase, only when it is set.
C23_EnrichLogServe ==
    /\ \A i \in At("serve") : ServedSteps(i)
    /\ Count("enrich") = Count("serve")
    /\ Count("log") = IF config.ProblemLogFunc THEN Count("serve") ELSE 0
    /\ (pc = "done" /\ FailedDecodes # {} /\ lineage = "japi")
          => w = ServeJSON(NewWriter, Enrich(config, nreq, BadRequest))
    /\ At("routelog") \subseteq {1}
    /\ Count("routelog") = IF config.RouteLogFunc /\ pc \notin {"idle", "routelog"}
                           THEN 1 ELSE 0

\* Both hooks are set; the route was logged first, the body decode failed and
\* its Problem was enriched, logged and served.
C23_Witness ==
    /\ pc = "done" /\ config.RouteLogFunc /\ config.ProblemLogFunc
    /\ trace[1].ev = "routelog"
    /\ \E i \in FailedDecodes : trace[i].ev = "body"
    /\ Count("log") = 1 /\ trace[Len(trace)].ev = "serve"

====
